---- MODULE Spec2Model ----
(***************************************************************************)
(* Model of src/merkle.js: the leaf source (generateRandomHashes,          *)
(* hashString), the pair combiner (combineHashes) and the tree reducer     *)
(* (buildMerkleRoot).                                                      *)
(*                                                                         *)
(* A digest is the hex string ethers returns, written here as the sequence *)
(* of its hex digits after the "0x" prefix (each digit a value 0..15; the  *)
(* digits are lower case, so the character order of the string is the      *)
(* order of these values).  The hash primitives of ethers are outside the  *)
(* repository; they are stood for by two different one-byte mixing         *)
(* functions, which keep what the code relies on: the result depends on    *)
(* every byte and on the order of the bytes, and on the primitive chosen.  *)
(***************************************************************************)
EXTENDS Integers, Sequences, FiniteSets, TLC

(* ------------------------------ bounds --------------------------------- *)

\* longest leaf sequence handed to buildMerkleRoot
MaxLeaves == 4

\* largest count handed to generateRandomHashes
MaxCount == 2

\* longest leaf sequence in the determinism specification
DetMaxLeaves == 3

(* --------------------------- input domains ----------------------------- *)

Undefined == "undefined"

\* algorithm identifiers a caller may pass: the two supported ones, one
\* unsupported one, and an omitted argument
AlgorithmIds == {"sha256", "keccak256", "md5"}

AlgorithmArgs == AlgorithmIds \cup {Undefined}

\* digests offered as leaves (hex digits of one-byte digests)
LeafDigests == {<<0, 1>>, <<10, 11>>, <<15, 15>>}

\* the leaves of the determinism specification
DetDigests == {<<0, 1>>, <<10, 11>>}

\* blocks the random byte source may return
RandomBlocks == {<<3, 200>>, <<77, 5>>}

\* texts offered to hashString, as sequences of code points ("tx1", "tx2",
\* and a text with the two-byte code point U+00E9)
Texts == {<<116, 120, 49>>, <<116, 120, 50>>, <<233>>}

SeqsUpTo(S, n) == UNION {[1..k -> S] : k \in 0..n}

(* ------------------------- external primitives ------------------------- *)

\* ethers getBytes: a hex string to its bytes, two digits per byte
RECURSIVE getBytes(_)
getBytes(hex) ==
  IF Len(hex) < 2 THEN <<>>
  ELSE <<hex[1] * 16 + hex[2]>> \o getBytes(SubSeq(hex, 3, Len(hex)))

\* ethers hexlify: bytes to the hex string, two digits per byte
RECURSIVE hexlify(_)
hexlify(bytes) ==
  IF bytes = <<>> THEN <<>>
  ELSE <<bytes[1] \div 16, bytes[1] % 16>> \o hexlify(Tail(bytes))

RECURSIVE Mix(_, _, _, _)
Mix(bytes, h, mul, add) ==
  IF bytes = <<>> THEN h
  ELSE Mix(Tail(bytes), (h * mul + bytes[1] + add) % 256, mul, add)

\* ethers sha256 and keccak256 on bytes: a one-byte digest, as a hex string
sha256Bytes(bytes) == hexlify(<<Mix(bytes, 7, 31, 1)>>)

keccak256Bytes(bytes) == hexlify(<<Mix(bytes, 11, 17, 3)>>)

\* ethers sha256 and keccak256 on a hex string: the digest of its bytes
sha256(hex) == sha256Bytes(getBytes(hex))

keccak256(hex) == keccak256Bytes(getBytes(hex))

\* ethers toUtf8Bytes, for code points below U+0800
RECURSIVE toUtf8Bytes(_)
toUtf8Bytes(text) ==
  IF text = <<>> THEN <<>>
  ELSE (IF text[1] < 128 THEN <<text[1]>>
        ELSE <<192 + (text[1] \div 64), 128 + (text[1] % 64)>>)
       \o toUtf8Bytes(Tail(text))

\* ethers concat: the hex string of the concatenated bytes of its arguments
RECURSIVE concat(_)
concat(list) ==
  IF list = <<>> THEN <<>>
  ELSE hexlify(getBytes(list[1])) \o concat(Tail(list))

\* the < of JavaScript on two strings: lexicographic, a proper prefix first
RECURSIVE StrLess(_, _)
StrLess(s, t) ==
  IF t = <<>> THEN FALSE
  ELSE IF s = <<>> THEN TRUE
  ELSE IF s[1] # t[1] THEN s[1] < t[1]
  ELSE StrLess(Tail(s), Tail(t))

(* ------------------------- values and errors --------------------------- *)

\* the messages of the three Error objects the code throws
ErrUnsupported == "Unsupported algorithm. Use sha256 or keccak256"

ErrInvalid == "Invalid input. Provide result from generateRandomHashes or array of hashes."

ErrEmpty == "Cannot build Merkle tree from empty array"

\* what JavaScript yields for an element that is not there
undefinedValue == <<-1>>

\* array[idx] of JavaScript, indices from 0
At(array, idx) ==
  IF idx + 1 \in DOMAIN array THEN array[idx + 1] ELSE undefinedValue

\* the outcome of a call: nothing yet, a digest, a leaf set, or an error thrown
NoResult ==
  [kind |-> "none", digest |-> <<>>, hashes |-> <<>>, algorithm |-> Undefined,
   error |-> ""]

Returned(digest) == [NoResult EXCEPT !.kind = "digest", !.digest = digest]

ReturnedHash(hash, algorithm) ==
  [NoResult EXCEPT !.kind = "hash", !.digest = hash, !.algorithm = algorithm]

ReturnedLeaves(hashes, algorithm) ==
  [NoResult EXCEPT !.kind = "leafset", !.hashes = hashes, !.algorithm = algorithm]

Thrown(error) == [NoResult EXCEPT !.kind = "error", !.error = error]

\* the three shapes of buildMerkleRoot's first argument: an object with a
\* hashes array and (unless Undefined) an algorithm, a plain array, or null
TaggedInput(hashes, algorithm) ==
  [shape |-> "tagged", hashes |-> hashes, algorithm |-> algorithm]

ArrayInput(hashes) ==
  [shape |-> "array", hashes |-> hashes, algorithm |-> Undefined]

NullInput == [shape |-> "null", hashes |-> <<>>, algorithm |-> Undefined]

LeavesInputs(digests, n) ==
  {TaggedInput(h, a) : h \in SeqsUpTo(digests, n), a \in AlgorithmArgs}
    \cup {ArrayInput(h) : h \in SeqsUpTo(digests, n)}
    \cup {NullInput}

\* the call in progress or last finished, with its arguments
NoCall ==
  [op |-> "none", input |-> NullInput, override |-> Undefined, left |-> <<>>,
   right |-> <<>>, algorithm |-> Undefined, count |-> 0, text |-> <<>>]

(* ------------------------------- state --------------------------------- *)

VARIABLES
  pc,            \* "idle", or the place buildMerkleRoot has reached
  call,          \* the current or last call and its arguments
  result,        \* what the last call returned or threw
  leaves,        \* buildMerkleRoot: let leaves
  algorithm,     \* buildMerkleRoot: let algorithm
  currentLevel,  \* buildMerkleRoot: let currentLevel
  nextLevel,     \* buildMerkleRoot: const nextLevel of the current level
  i,             \* buildMerkleRoot: the index of the for loop
  levelNumber,   \* buildMerkleRoot: let levelNumber
  combines,      \* the combineHashes invocations of the current call, in order
  memo           \* an earlier buildMerkleRoot call and its root, kept to compare

vars ==
  <<pc, call, result, leaves, algorithm, currentLevel, nextLevel, i,
    levelNumber, combines, memo>>

\* the locals of buildMerkleRoot: those of its current or last invocation,
\* and none once another call has started
NoFrame ==
  /\ leaves' = <<>>
  /\ algorithm' = Undefined
  /\ currentLevel' = <<>>
  /\ nextLevel' = <<>>
  /\ i' = 0
  /\ levelNumber' = 0
  /\ combines' = <<>>

NoMemo ==
  [set |-> FALSE, leaves |-> <<>>, algorithm |-> Undefined, root |-> <<>>,
   since |-> 0]

\* a call has started since the memo was taken (counted up to two)
Since == IF memo.set /\ memo.since < 2 THEN [memo EXCEPT !.since = @ + 1] ELSE memo

Init ==
  /\ pc = "idle"
  /\ call = NoCall
  /\ result = NoResult
  /\ leaves = <<>>
  /\ algorithm = Undefined
  /\ currentLevel = <<>>
  /\ nextLevel = <<>>
  /\ i = 0
  /\ levelNumber = 0
  /\ combines = <<>>
  /\ memo = NoMemo

(* ------------------------------ leaf source ---------------------------- *)

\* a default parameter: the default stands in for an omitted argument
Default(arg, default) == IF arg = Undefined THEN default ELSE arg

\* generateRandomHashes(count, algorithm = 'keccak256'), given the blocks
\* randomBytes returns: one hash per block, or the throw of the first
\* iteration; with no iteration, the empty leaf set
generateRandomHashes(count, algorithmArg, blocks) ==
  LET alg == Default(algorithmArg, "keccak256")
      hash(block) ==
        IF alg = "sha256" THEN sha256Bytes(block) ELSE keccak256Bytes(block)
  IN  IF count > 0 /\ alg \notin {"sha256", "keccak256"}
        THEN Thrown(ErrUnsupported)
        ELSE ReturnedLeaves([k \in 1..Len(blocks) |-> hash(blocks[k])], alg)

\* hashString(text, algorithm = 'keccak256')
hashString(text, algorithmArg) ==
  LET alg == Default(algorithmArg, "keccak256")
      bytes == toUtf8Bytes(text)
  IN  IF alg = "sha256" THEN ReturnedHash(sha256Bytes(bytes), alg)
      ELSE IF alg = "keccak256" THEN ReturnedHash(keccak256Bytes(bytes), alg)
      ELSE Thrown(ErrUnsupported)

(* ----------------------------- pair combiner --------------------------- *)

SortPair_unsorted(left, right) == <<left, right>>

\* const [first, second] = left < right ? [left, right] : [right, left]
SortPair(left, right) ==
  IF StrLess(left, right) THEN <<left, right>> ELSE <<right, left>>

\* algorithm === 'sha256' ? sha256(combined) : keccak256(combined)
HashWith(alg, combined) ==
  IF alg = "sha256" THEN sha256(combined) ELSE keccak256(combined)

\* combineHashes(left, right, algorithm)
combineHashes(left, right, alg) == HashWith(alg, concat(SortPair(left, right)))

(* ------------------------------ the calls ------------------------------ *)

\* a call that runs to its end in one step leaves result and no frame
Finish(newCall, outcome) ==
  /\ pc = "idle"
  /\ pc' = "idle"
  /\ call' = newCall
  /\ result' = outcome
  /\ memo' = Since
  /\ NoFrame

GenerateRandomHashes(count, algorithmArg) ==
  \E blocks \in [1..(IF count > 0 THEN count ELSE 0) -> RandomBlocks] :
    Finish([NoCall EXCEPT !.op = "generateRandomHashes", !.count = count,
                          !.algorithm = algorithmArg],
           generateRandomHashes(count, algorithmArg, blocks))

HashString(text, algorithmArg) ==
  Finish([NoCall EXCEPT !.op = "hashString", !.text = text,
                        !.algorithm = algorithmArg],
         hashString(text, algorithmArg))

CombineHashes(left, right, algorithmArg) ==
  Finish([NoCall EXCEPT !.op = "combineHashes", !.left = left, !.right = right,
                        !.algorithm = algorithmArg],
         Returned(combineHashes(left, right, algorithmArg)))

(* ----------------------------- tree reducer ---------------------------- *)

\* leavesInput && typeof leavesInput === 'object' && leavesInput.hashes
\*   && leavesInput.algorithm
IsTagged(leavesInput) ==
  leavesInput.shape = "tagged" /\ leavesInput.algorithm # Undefined

\* Array.isArray(leavesInput)
IsArray(leavesInput) == leavesInput.shape = "array"

ResolveAlgorithm_override(leavesInput, algorithmOverride) ==
  IF algorithmOverride # Undefined THEN algorithmOverride
  ELSE IF IsTagged(leavesInput) THEN leavesInput.algorithm
  ELSE "keccak256"

\* the algorithm buildMerkleRoot settles on, for an input of either shape
ResolveAlgorithm(leavesInput, algorithmOverride) ==
  IF IsTagged(leavesInput) THEN leavesInput.algorithm
  ELSE Default(algorithmOverride, "keccak256")

IsEmptyLeaves_never(lv) == FALSE

\* !leaves || leaves.length === 0
IsEmptyLeaves(lv) == Len(lv) = 0

StartLevel_stale(lv) == currentLevel \o lv

\* let currentLevel = [...leaves]
StartLevel(lv) == lv

Continues_nonempty(level) == Len(level) > 0

\* the test of the while loop: currentLevel.length > 1
Continues(level) == Len(level) > 1

HasPair_short(level, idx) == idx + 2 < Len(level)

\* the test inside the for loop: i + 1 < currentLevel.length
HasPair(level, idx) == idx + 1 < Len(level)

\* buildMerkleRoot(leavesInput, algorithmOverride), up to the first test of
\* the while loop: the throws, or the locals set
buildMerkleRoot(leavesInput, algorithmOverride) ==
  /\ pc = "idle"
  /\ call' = [NoCall EXCEPT !.op = "buildMerkleRoot", !.input = leavesInput,
                            !.override = algorithmOverride]
  /\ memo' = Since
  /\ IF ~IsTagged(leavesInput) /\ ~IsArray(leavesInput)
       THEN /\ result' = Thrown(ErrInvalid)
            /\ pc' = "idle"
            /\ NoFrame
       ELSE IF IsEmptyLeaves(leavesInput.hashes)
         THEN /\ result' = Thrown(ErrEmpty)
              /\ pc' = "idle"
              /\ NoFrame
         ELSE /\ result' = NoResult
              /\ pc' = "while"
              /\ leaves' = leavesInput.hashes
              /\ algorithm' = ResolveAlgorithm(leavesInput, algorithmOverride)
              /\ currentLevel' = StartLevel(leavesInput.hashes)
              /\ levelNumber' = 1
              /\ nextLevel' = <<>>
              /\ i' = 0
              /\ combines' = <<>>

\* const merkleRoot = buildMerkleRoot(result): the leaf set just generated
BuildGenerated ==
  /\ result.kind = "leafset"
  /\ buildMerkleRoot(TaggedInput(result.hashes, result.algorithm), Undefined)

\* while (currentLevel.length > 1): a new level begins, or the root is returned
WhileTest ==
  /\ pc = "while"
  /\ IF Continues(currentLevel)
       THEN /\ nextLevel' = <<>>
            /\ i' = 0
            /\ pc' = "for"
            /\ UNCHANGED result
       ELSE /\ result' = Returned(At(currentLevel, 0))
            /\ pc' = "idle"
            /\ UNCHANGED <<nextLevel, i>>
  /\ UNCHANGED <<call, leaves, algorithm, currentLevel, levelNumber, combines, memo>>

PushParent_front(left, right) ==
  LET parentHash == combineHashes(left, right, algorithm)
  IN  /\ nextLevel' = <<parentHash>> \o nextLevel
      /\ combines' = Append(combines,
           [left |-> left, right |-> right, algorithm |-> algorithm,
            hash |-> parentHash])

\* nextLevel.push(parentHash), and the invocation written to the log
PushParent(left, right) ==
  LET parentHash == combineHashes(left, right, algorithm)
  IN  /\ nextLevel' = Append(nextLevel, parentHash)
      /\ combines' = Append(combines,
           [left |-> left, right |-> right, algorithm |-> algorithm,
            hash |-> parentHash])

Promote_drop(node) == nextLevel

Promote_rehash(node) == Append(nextLevel, combineHashes(node, node, algorithm))

\* nextLevel.push(currentLevel[i])
Promote(node) == Append(nextLevel, node)

\* one turn of for (let i = 0; i < currentLevel.length; i += 2): a pair
\* combined or the odd one promoted; or the loop left and the level replaced
ForStep ==
  /\ pc = "for"
  /\ IF i < Len(currentLevel)
       THEN /\ IF HasPair(currentLevel, i)
                 THEN PushParent(At(currentLevel, i), At(currentLevel, i + 1))
                 ELSE /\ nextLevel' = Promote(At(currentLevel, i))
                      /\ UNCHANGED combines
            /\ i' = i + 2
            /\ UNCHANGED <<pc, currentLevel, levelNumber>>
       ELSE /\ currentLevel' = nextLevel
            /\ levelNumber' = levelNumber + 1
            /\ pc' = "while"
            /\ UNCHANGED <<nextLevel, i, combines>>
  /\ UNCHANGED <<call, result, leaves, algorithm, memo>>

\* a caller keeps the root it was returned, with what it had passed
Remember ==
  /\ pc = "idle"
  /\ call.op = "buildMerkleRoot"
  /\ result.kind = "digest"
  /\ ~memo.set
  /\ memo' = [set |-> TRUE, leaves |-> leaves, algorithm |-> algorithm,
              root |-> result.digest, since |-> 0]
  /\ UNCHANGED <<pc, call, result, leaves, algorithm, currentLevel, nextLevel,
                 i, levelNumber, combines>>

(* --------------------------- specifications ---------------------------- *)

Counts == (0 - 1)..MaxCount

\* no call has been made yet
Fresh == call.op = "none"

\* one run of a program that imports the module: one call of an exported
\* function on any arguments, or a leaf set generated and then reduced
Next ==
  \/ Fresh /\ \E count \in Counts, a \in AlgorithmArgs :
       GenerateRandomHashes(count, a)
  \/ Fresh /\ \E text \in Texts, a \in AlgorithmArgs : HashString(text, a)
  \/ Fresh /\ \E l \in LeafDigests, r \in LeafDigests, a \in AlgorithmArgs :
       CombineHashes(l, r, a)
  \/ Fresh /\ \E in \in LeavesInputs(LeafDigests, MaxLeaves), ov \in AlgorithmArgs :
       buildMerkleRoot(in, ov)
  \/ BuildGenerated
  \/ WhileTest
  \/ ForStep

Spec == Init /\ [][Next]_vars

\* the leaf sets and overrides of the determinism specification
DetAlgorithms == {"sha256", "keccak256"}

DetInputs ==
  {TaggedInput(h, a) : h \in SeqsUpTo(DetDigests, DetMaxLeaves), a \in DetAlgorithms}
    \cup {ArrayInput(h) : h \in SeqsUpTo(DetDigests, DetMaxLeaves)}

\* a program that makes any number of calls, one after the other, and keeps
\* one of the roots it was returned
NextDet ==
  \/ \E text \in Texts, a \in AlgorithmArgs : HashString(text, a)
  \/ \E l \in DetDigests, r \in DetDigests, a \in AlgorithmArgs :
       CombineHashes(l, r, a)
  \/ \E in \in DetInputs, ov \in DetAlgorithms \cup {Undefined} :
       buildMerkleRoot(in, ov)
  \/ WhileTest
  \/ ForStep
  \/ Remember

SpecDet == Init /\ [][NextDet]_vars

\* the leaf sets of the termination specification: tagged, of every length
\* up to MaxLeaves, under a supported algorithm
TermInputs ==
  {TaggedInput(h, a) : h \in SeqsUpTo(DetDigests, MaxLeaves), a \in DetAlgorithms}

\* a program that calls buildMerkleRoot any number of times
NextTerm ==
  \/ \E in \in TermInputs : buildMerkleRoot(in, Undefined)
  \/ WhileTest
  \/ ForStep

\* buildMerkleRoot is synchronous: once called, it runs on while it has a
\* step to take
SpecTerm ==
  Init /\ [][NextTerm]_vars /\ WF_vars(WhileTest) /\ WF_vars(ForStep)

(* ------------------------------- claims -------------------------------- *)

Supported == {"sha256", "keccak256"}

\* the last call was op and has returned or thrown
Done(op) == pc = "idle" /\ call.op = op /\ result.kind # "none"

\* the current or last call is buildMerkleRoot on a leaf sequence the code
\* accepts: a tagged leaf set or a plain array
Building ==
  /\ call.op = "buildMerkleRoot"
  /\ IsTagged(call.input) \/ IsArray(call.input)

\* the last call was given an algorithm identifier outside the supported set
GivenUnsupported ==
  IF call.op = "buildMerkleRoot"
    THEN \/ call.input.shape = "tagged" /\ call.input.algorithm \in AlgorithmIds \ Supported
         \/ call.override \in AlgorithmIds \ Supported
    ELSE call.algorithm \in AlgorithmIds \ Supported

\* C1: every entry point given an algorithm identifier other than 'sha256' or
\* 'keccak256' fails with the unsupported-algorithm error and returns nothing.
C1_UnsupportedAlgorithmFails ==
  (pc = "idle" /\ call.op # "none" /\ GivenUnsupported)
    => result = Thrown(ErrUnsupported)

\* C2: generateRandomHashes with count < 1 fails with the invalid-input error,
\* and no call of it returns a leaf set whose hashes are empty.
C2_NonPositiveCountFails ==
  Done("generateRandomHashes") =>
    /\ call.count < 1 => result = Thrown(ErrInvalid)
    /\ ~(result.kind = "leafset" /\ result.hashes = <<>>)

\* C3: buildMerkleRoot on a plain array of digests (not empty) with no
\* algorithmOverride fails with the invalid-input error and returns no root.
C3_BareArrayNeedsOverride ==
  (/\ pc = "idle"
   /\ call.op = "buildMerkleRoot"
   /\ IsArray(call.input)
   /\ call.input.hashes # <<>>
   /\ call.override = Undefined)
    => result = Thrown(ErrInvalid)

\* C4: buildMerkleRoot on an empty leaf sequence, tagged or plain, throws the
\* empty-input error at once: it never enters the loop, returns no root and
\* has invoked combineHashes not once.
C4_EmptyLeavesFail ==
  (Building /\ call.input.hashes = <<>>)
    => /\ pc = "idle"
       /\ result = Thrown(ErrEmpty)
       /\ combines = <<>>

C4_Witness ==
  /\ Building
  /\ call.input = TaggedInput(<<>>, "sha256")
  /\ result.kind = "error"

\* the digest of raw bytes under a supported algorithm
DigestOf(alg, bytes) ==
  IF alg = "sha256" THEN sha256Bytes(bytes) ELSE keccak256Bytes(bytes)

\* C5: combineHashes(a, b, algo) under a supported algorithm is the digest of
\* lo || hi, lo the lexicographically smaller of the two, and is what
\* combineHashes(b, a, algo) returns.
C5_CombineOrderIndependent ==
  (Done("combineHashes") /\ call.algorithm \in Supported) =>
    LET a == call.left
        b == call.right
        lo == IF StrLess(b, a) THEN b ELSE a
        hi == IF StrLess(b, a) THEN a ELSE b
    IN  /\ result = Returned(DigestOf(call.algorithm, getBytes(lo) \o getBytes(hi)))
        /\ result.digest = combineHashes(b, a, call.algorithm)

C5_Witness ==
  /\ Done("combineHashes")
  /\ call.algorithm = "sha256"
  /\ StrLess(call.right, call.left)
  /\ result.kind = "digest"

\* C6: on a leaf set of exactly one digest d, buildMerkleRoot never enters the
\* for loop, invokes combineHashes not once, and returns d.
C6_SingleLeafIsRoot ==
  (Building /\ Len(call.input.hashes) = 1)
    => /\ pc # "for"
       /\ combines = <<>>
       /\ pc = "idle" => result = Returned(call.input.hashes[1])

C6_Witness ==
  /\ Building
  /\ Len(call.input.hashes) = 1
  /\ pc = "idle"
  /\ result.kind = "digest"

\* the algorithm identifier buildMerkleRoot passes on for the current call
CallAlgorithm == ResolveAlgorithm(call.input, call.override)

\* the log entry of one combineHashes invocation
Combined(left, right, alg) ==
  [left |-> left, right |-> right, algorithm |-> alg,
   hash |-> combineHashes(left, right, alg)]

\* C7: on three digests [a, b, c] buildMerkleRoot returns
\* combine(combine(a, b), c), having combined a with b and the result with c
\* and nothing else: c is neither dropped nor hashed alone.
C7_ThreeLeaves ==
  (Building /\ Len(call.input.hashes) = 3 /\ pc = "idle") =>
    LET a == call.input.hashes[1]
        b == call.input.hashes[2]
        c == call.input.hashes[3]
        ab == combineHashes(a, b, CallAlgorithm)
    IN  /\ result = Returned(combineHashes(ab, c, CallAlgorithm))
        /\ combines = <<Combined(a, b, CallAlgorithm), Combined(ab, c, CallAlgorithm)>>

C7_Witness ==
  /\ Building
  /\ pc = "idle"
  /\ call.input.hashes = <<<<15, 15>>, <<0, 1>>, <<10, 11>>>>
  /\ result.kind = "digest"

\* C8: on four digests [a, b, c, d] buildMerkleRoot returns
\* combine(combine(a, b), combine(c, d)), and on two digests [a, b] it returns
\* combine(a, b).
C8_FourAndTwoLeaves ==
  (Building /\ pc = "idle") =>
    LET h == call.input.hashes
        ab == combineHashes(h[1], h[2], CallAlgorithm)
    IN  /\ Len(h) = 2 => result = Returned(ab)
        /\ Len(h) = 4 =>
             result = Returned(combineHashes(ab, combineHashes(h[3], h[4], CallAlgorithm),
                                             CallAlgorithm))

C8_Witness ==
  /\ Building
  /\ pc = "idle"
  /\ Len(call.input.hashes) = 4
  /\ Cardinality({call.input.hashes[k] : k \in 1..4}) = 3
  /\ result.kind = "digest"

\* C9: a buildMerkleRoot call given the digests, in the order, and the
\* algorithm of an earlier call returns the root the earlier call returned,
\* whatever was called in between.
C9_Deterministic ==
  (/\ Done("buildMerkleRoot")
   /\ result.kind = "digest"
   /\ memo.set
   /\ leaves = memo.leaves
   /\ algorithm = memo.algorithm)
    => result.digest = memo.root

C9_Witness ==
  /\ Done("buildMerkleRoot")
  /\ result.kind = "digest"
  /\ memo.set
  /\ memo.since = 2
  /\ Len(leaves) = 3
  /\ leaves = memo.leaves
  /\ algorithm = memo.algorithm

\* C10: in a buildMerkleRoot call on a tagged leaf set, the algorithm in use
\* and the one every combineHashes invocation receives are the leaf set's,
\* whatever algorithmOverride names.
C10_AlgorithmCarried ==
  (call.op = "buildMerkleRoot" /\ IsTagged(call.input)) =>
    /\ pc # "idle" => algorithm = call.input.algorithm
    /\ \A k \in DOMAIN combines : combines[k].algorithm = call.input.algorithm

C10_Witness ==
  /\ Done("buildMerkleRoot")
  /\ IsTagged(call.input)
  /\ call.input.algorithm = "sha256"
  /\ call.override = "keccak256"
  /\ Len(combines) = 3

\* a step of the for loop that leaves the loop and replaces the level
Reduces == pc = "for" /\ pc' = "while"

\* C11: each reduction step takes a level of n > 1 digests to a level of
\* ceil(n/2) digests whose element k, for 2k+1 < n, is
\* combine(level[2k], level[2k+1]) and whose last element, for odd n, is
\* level[n-1] itself.
C11_ReductionStep ==
  [][Reduces =>
       LET n == Len(currentLevel)
           next == currentLevel'
       IN  /\ n > 1
           /\ Len(next) = (n + 1) \div 2
           /\ \A k \in 0..(n - 1) :
                2 * k + 1 < n =>
                  At(next, k) = combineHashes(At(currentLevel, 2 * k),
                                              At(currentLevel, 2 * k + 1), algorithm)
           /\ n % 2 = 1 => At(next, Len(next) - 1) = At(currentLevel, n - 1)]_vars

\* the first level above three distinct leaves has just been made
C11_Witness ==
  /\ Building
  /\ pc = "while"
  /\ levelNumber = 2
  /\ leaves = <<<<15, 15>>, <<0, 1>>, <<10, 11>>>>
  /\ Len(currentLevel) = 2

\* the least k with 2^k >= n
RECURSIVE CeilLog2(_)
CeilLog2(n) == IF n <= 1 THEN 0 ELSE 1 + CeilLog2((n + 1) \div 2)

\* what C12 says of a buildMerkleRoot call on n leaves that has returned
C12_AtReturn ==
  (Building /\ pc = "idle" /\ call.input.hashes # <<>>) =>
    LET n == Len(call.input.hashes)
    IN  /\ result.kind = "digest"
        /\ Len(currentLevel) = 1
        /\ levelNumber - 1 = CeilLog2(n)
        /\ Len(combines) = n - 1

\* C12: on n >= 1 leaves buildMerkleRoot comes to its return, with a level of
\* exactly one digest, after exactly ceil(log2 n) reduction steps and exactly
\* n - 1 combineHashes invocations, and every reduction step makes the level
\* strictly shorter.
C12_Terminates ==
  /\ []C12_AtReturn
  /\ [][Reduces => Len(currentLevel') < Len(currentLevel)]_vars
  /\ (pc # "idle") ~> (pc = "idle")

\* a call on four leaves has returned after two reduction steps
C12_Witness ==
  /\ Building
  /\ pc = "idle"
  /\ Len(call.input.hashes) = 4
  /\ result.kind = "digest"
  /\ levelNumber = 3
  /\ Len(combines) = 3

====
